---- MODULE Spec2Model ----
(***************************************************************************)
(* Persistence layer of hnswlib-wasm-node (src/index.js): saveIndexToFile  *)
(* and loadIndexFromFile with their two codecs, the JSON text codec and    *)
(* the fixed-layout binary codec, over a file system and an index adapter. *)
(***************************************************************************)
EXTENDS Integers, Sequences, FiniteSets, TLC

VARIABLES
    index,      \* the index object handed to saveIndexToFile
    filename,   \* the filename argument of both entry points
    metadata,   \* the metadata argument of saveIndexToFile
    fs,         \* the file system: name -> content
    save,       \* the saveIndexToFile call in flight or last returned
    load,       \* the loadIndexFromFile call in flight or last returned
    other,      \* a saveIndexToFile call made while the first is in flight
    logger,     \* the module-level logger
    customLogger \* the argument of the latest setLogger call

vars == <<index, filename, metadata, fs, save, load, other, logger, customLogger>>

\* What a save or load call leaves alone.
aside == <<other, logger, customLogger>>

(***************************************************************************)
(* Bounds of the model.                                                    *)
(***************************************************************************)
MaxDim == 2        \* largest numDimensions of an index that is saved
MaxVectors == 2    \* largest number of points held by an index

(***************************************************************************)
(* JavaScript values.  A value carries its typeof tag.  Integers (labels,  *)
(* header fields) are Num(n); the doubles that occur as vector components  *)
(* are named by their literal, Dbl("0.1").                                 *)
(***************************************************************************)
Undefined == [type |-> "undefined"]
Null == [type |-> "null"]
Num(n) == [type |-> "number", val |-> n]
Dbl(lit) == [type |-> "number", lit |-> lit]
Str(s) == [type |-> "string", val |-> s]
Arr(s) == [type |-> "array", items |-> s]
Obj(f) == [type |-> "object", fields |-> f]

IsInt(v) == v.type = "number" /\ "val" \in DOMAIN v

\* ToBoolean, as the || operator applies it.
Truthy(v) ==
    CASE v.type = "undefined" -> FALSE
      [] v.type = "null" -> FALSE
      [] v.type = "number" ->
            IF IsInt(v) THEN v.val # 0 ELSE v.lit \notin {"0", "-0", "NaN"}
      [] v.type = "string" -> v.val # ""
      [] OTHER -> TRUE

\* a || b
Or(a, b) == IF Truthy(a) THEN a ELSE b

\* Mutant: the typeof test without the isFinite test.
IsFiniteNumber_TypeOnly(v) == v.type = "number"

\* typeof value === 'number' && isFinite(value)
IsFiniteNumber(v) ==
    /\ v.type = "number"
    /\ IsInt(v) \/ v.lit \notin {"NaN", "Infinity", "-Infinity"}

(***************************************************************************)
(* IEEE-754 single precision.  F32Table lists the float32 values of the    *)
(* model with their little-endian bytes; Fround is the rounding of a       *)
(* double to the nearest float32 that writeFloatLE performs.               *)
(***************************************************************************)
F32Table ==
    << [lit |-> "0",                 bytes |-> <<0, 0, 0, 0>>],
       [lit |-> "-0",                bytes |-> <<0, 0, 0, 128>>],
       [lit |-> "1",                 bytes |-> <<0, 0, 128, 63>>],
       [lit |-> "0.5",               bytes |-> <<0, 0, 0, 63>>],
       [lit |-> "0.100000001490116", bytes |-> <<205, 204, 204, 61>>],
       [lit |-> "Infinity",          bytes |-> <<0, 0, 128, 127>>],
       [lit |-> "NaN",               bytes |-> <<0, 0, 192, 127>>] >>

Fround(lit) ==
    CASE lit = "0.1" -> "0.100000001490116"
      [] lit = "1e39" -> "Infinity"
      [] OTHER -> lit

\* Mutant: the float stored big-endian (writeFloatBE).
FloatBE(lit) ==
    LET f == Fround(lit)
        k == CHOOSE i \in 1..Len(F32Table) : F32Table[i].lit = f
        b == F32Table[k].bytes
    IN  <<b[4], b[3], b[2], b[1]>>

\* The four bytes buffer.writeFloatLE(value) stores.
FloatLE(lit) ==
    LET f == Fround(lit)
        k == CHOOSE i \in 1..Len(F32Table) : F32Table[i].lit = f
    IN  F32Table[k].bytes

\* buffer.readFloatLE on four bytes; a bit pattern outside the table is a
\* float the model does not name.
FromFloatLE(bytes) ==
    IF \E i \in 1..Len(F32Table) : F32Table[i].bytes = bytes
    THEN Dbl(F32Table[CHOOSE i \in 1..Len(F32Table) : F32Table[i].bytes = bytes].lit)
    ELSE Dbl("unnamed")

\* Mutant: the integer stored big-endian (writeUInt32BE).
UInt32BE(n) ==
    << (n \div 16777216) % 256, (n \div 65536) % 256, (n \div 256) % 256, n % 256 >>

\* The four bytes buffer.writeUInt32LE(n) stores.
UInt32LE(n) ==
    << n % 256, (n \div 256) % 256, (n \div 65536) % 256, (n \div 16777216) % 256 >>

\* buffer.readUInt8(offset), buffer.readUInt32LE(offset); offsets count from 0.
ReadUInt8(buffer, offset) == buffer[offset + 1]

ReadUInt32LE(buffer, offset) ==
    buffer[offset + 1] + 256 * buffer[offset + 2]
        + 65536 * buffer[offset + 3] + 16777216 * buffer[offset + 4]

ReadFloatLE(buffer, offset) == FromFloatLE(SubSeq(buffer, offset + 1, offset + 4))

(***************************************************************************)
(* Errors are named by the message the code throws; a wrapping handler     *)
(* prefixes its own message to the cause's.                                *)
(***************************************************************************)
NoError == ""
Wrap(prefix, cause) == prefix \o ": " \o cause

\* String.prototype.endsWith and a whitespace-only test (trim().length === 0)
EndsWith(s, suffix) ==
    /\ Len(s) >= Len(suffix)
    /\ SubSeq(s, Len(s) - Len(suffix) + 1, Len(s)) = suffix

IsBlank(s) == \A i \in 1..Len(s) : SubSeq(s, i, i) = " "

(***************************************************************************)
(* The index adapter: an hnswlib index object.  It holds its elements in   *)
(* insertion order; an element marked deleted stays counted by             *)
(* getCurrentCount but is no longer among the used labels.                 *)
(***************************************************************************)
RequiredMethods == {"getNumDimensions", "getCurrentCount", "getUsedLabels", "getPoint"}
AllMethods == RequiredMethods \cup {"getMaxElements", "addPoint", "initIndex"}

GetNumDimensions(idx) == idx.numDimensions
GetCurrentCount(idx) == Len(idx.elements)
GetMaxElements(idx) == idx.maxElements
Live(e) == ~e.deleted

\* index.getUsedLabels(): the labels of the elements not marked deleted, in
\* the order the index holds them.
GetUsedLabels(idx) ==
    LET used == SelectSeq(idx.elements, Live)
    IN  [i \in 1..Len(used) |-> used[i].label]

\* index.getPoint(label): the point the index holds under the label.
GetPoint(idx, label) ==
    idx.elements[CHOOSE i \in 1..Len(idx.elements) :
                    /\ idx.elements[i].label = label
                    /\ \A k \in 1..(i - 1) : idx.elements[k].label # label].point

\* Mutant: the records collected last label first.
ExtractVectorsFromIndex_Reversed(idx) ==
    LET usedLabels == GetUsedLabels(idx)
        n == Len(usedLabels)
    IN  [error |-> NoError,
         vectors |-> [i \in 1..n |-> [label |-> usedLabels[n + 1 - i],
                                       point |-> GetPoint(idx, usedLabels[n + 1 - i])]]]

\* extractVectorsFromIndex: [error, vectors], with one {label, point} per
\* used label, in the order getUsedLabels yields them; a throw of
\* getUsedLabels or of a getPoint call is wrapped.
ExtractVectorsFromIndex(idx) ==
    LET usedLabels == GetUsedLabels(idx)
    IN  IF "getUsedLabels" \in idx.throwing
        THEN [error |-> Wrap("Failed to extract vectors from index", "getUsedLabels failed"),
              vectors |-> <<>>]
        ELSE IF \E i \in 1..Len(usedLabels) : usedLabels[i] \in idx.noPoint
        THEN [error |-> Wrap("Failed to extract vectors from index", "getPoint failed"),
              vectors |-> <<>>]
        ELSE [error |-> NoError,
              vectors |-> [i \in 1..Len(usedLabels) |->
                             [label |-> usedLabels[i],
                              point |-> GetPoint(idx, usedLabels[i])]]]

\* validateIndex: the message thrown, or NoError.
ValidateIndex(idx) ==
    IF idx.type = "null" THEN "Index parameter is required"
    ELSE IF ~(RequiredMethods \subseteq idx.methods)
         THEN "Invalid index object: missing required methods"
         ELSE NoError

\* validateFilename: the message thrown, or NoError.
ValidateFilename(name) ==
    IF ~Truthy(name) \/ name.type # "string" THEN "Filename must be a non-empty string"
    ELSE IF IsBlank(name.val) THEN "Filename cannot be empty"
         ELSE NoError

\* The format chosen from the file extension.
IsBinary(name) == EndsWith(name, ".bin") \/ EndsWith(name, ".dat")

(***************************************************************************)
(* saveIndexBinary up to its write call.  The buffer is allocated at its   *)
(* final size (uninitialized bytes are -1) and filled through a cursor     *)
(* [buffer, offset, error]; a write past the end is Node's range error.    *)
(***************************************************************************)
HeaderSize == 40
ReservedSize == 14

AllocUnsafe(n) == [i \in 1..n |-> -1]

Write(st, bytes) ==
    IF st.error # NoError THEN st
    ELSE IF st.offset + Len(bytes) > Len(st.buffer)
         THEN [st EXCEPT !.error = "The value of \"offset\" is out of range"]
         ELSE [buffer |-> [i \in 1..Len(st.buffer) |->
                              IF i > st.offset /\ i <= st.offset + Len(bytes)
                              THEN bytes[i - st.offset] ELSE st.buffer[i]],
               offset |-> st.offset + Len(bytes),
               error |-> NoError]

Throw(st, message) == IF st.error # NoError THEN st ELSE [st EXCEPT !.error = message]

\* metadata.maxElements || index.getMaxElements(): [error, value]
MaxElementsOr(idx, md) ==
    IF Truthy(md.maxElements) THEN [error |-> NoError, value |-> md.maxElements]
    ELSE IF "getMaxElements" \in idx.methods
         THEN [error |-> NoError, value |-> Num(GetMaxElements(idx))]
         ELSE [error |-> "index.getMaxElements is not a function", value |-> Undefined]

\* A function object, such as the members every object inherits.
Function == [type |-> "function"]

\* Mutant: the codes counted from 1.
SpaceNameMap_OneBased(key) ==
    CASE key = Str("l2") -> Num(1)
      [] key = Str("ip") -> Num(2)
      [] key = Str("cosine") -> Num(3)
      [] key \in {Str("toString"), Str("constructor")} -> Function
      [] OTHER -> Undefined

\* spaceNameMap[key] on the object literal { 'l2': 0, 'ip': 1, 'cosine': 2 }:
\* its own entry, the member Object.prototype hands down, or undefined.
SpaceNameMap(key) ==
    CASE key = Str("l2") -> Num(0)
      [] key = Str("ip") -> Num(1)
      [] key = Str("cosine") -> Num(2)
      [] key \in {Str("toString"), Str("constructor")} -> Function
      [] OTHER -> Undefined

\* spaceNameMap[metadata.spaceName || 'l2'] || 0
SpaceNameCode(md) == Or(SpaceNameMap(Or(md.spaceName, Str("l2"))), Num(0))

\* The byte buffer.writeUInt8(value) stores: the value made a number; what
\* is no number gives NaN, which passes the range test and is stored as 0.
UInt8(v) == IF IsInt(v) THEN v.val ELSE 0

VectorSize(numDimensions) == 4 + (numDimensions * 4)
BufferSize(numDimensions, numVectors) == HeaderSize + (numVectors * VectorSize(numDimensions))

WriteHeader(st, idx, md, numDimensions, numVectors) ==
    LET s1 == Write(st, <<1>>)
        s2 == Write(s1, <<UInt8(SpaceNameCode(md))>>)
        s3 == Write(s2, UInt32LE(numDimensions))
        me == MaxElementsOr(idx, md)
        s4 == IF me.error # NoError THEN Throw(s3, me.error)
              ELSE Write(s3, UInt32LE(me.value.val))
        s5 == Write(s4, UInt32LE(Or(md.m, Num(16)).val))
        s6 == Write(s5, UInt32LE(Or(md.efConstruction, Num(200)).val))
        s7 == Write(s6, UInt32LE(Or(md.randomSeed, Num(100)).val))
        s8 == Write(s7, UInt32LE(numVectors))
    IN  Write(s8, [i \in 1..ReservedSize |-> 0])

RECURSIVE WriteValues(_, _, _)
WriteValues(st, point, j) ==
    IF st.error # NoError \/ j > Len(point) THEN st
    ELSE IF ~IsFiniteNumber(point[j])
         THEN Throw(st, "Invalid vector value")
         ELSE WriteValues(Write(st, FloatLE(point[j].lit)), point, j + 1)

RECURSIVE WriteVectors(_, _, _, _)
WriteVectors(st, vectors, i, numDimensions) ==
    IF st.error # NoError \/ i > Len(vectors) THEN st
    ELSE IF Len(vectors[i].point) # numDimensions
         THEN Throw(st, "Vector dimension mismatch")
         ELSE WriteVectors(
                  WriteValues(Write(st, UInt32LE(vectors[i].label)), vectors[i].point, 1),
                  vectors, i + 1, numDimensions)

\* The cursor when saveIndexBinary reaches fs.writeFile, or its error.
EncodeBinary(idx, md, numDimensions, vectors) ==
    LET st0 == [buffer |-> AllocUnsafe(BufferSize(numDimensions, Len(vectors))),
                offset |-> 0, error |-> NoError]
    IN  WriteVectors(WriteHeader(st0, idx, md, numDimensions, Len(vectors)),
                     vectors, 1, numDimensions)

(***************************************************************************)
(* saveIndexJSON up to its write call.  The file holds the text            *)
(* JSON.stringify produces; the model keeps the value that text denotes,   *)
(* which is the data object after the changes stringify makes: a           *)
(* non-finite number becomes null, -0 becomes 0, an undefined array item   *)
(* becomes null.                                                           *)
(***************************************************************************)
RECURSIVE Stringified(_)
Stringified(v) ==
    CASE v.type = "number" ->
            IF IsInt(v) THEN v
            ELSE IF v.lit \in {"NaN", "Infinity", "-Infinity"} THEN Null
            ELSE IF v.lit = "-0" THEN Dbl("0") ELSE v
      [] v.type = "array" ->
            Arr([i \in 1..Len(v.items) |->
                    IF v.items[i].type = "undefined" THEN Null ELSE Stringified(v.items[i])])
      [] v.type = "object" ->
            Obj([k \in DOMAIN v.fields |-> Stringified(v.fields[k])])
      [] OTHER -> v

\* The data object saveIndexJSON builds: [error, data]
EncodeJSON(idx, md, numDimensions, vectors) ==
    LET me == MaxElementsOr(idx, md)
    IN  [error |-> me.error,
         data |-> Obj([version |-> Num(1),
                       spaceName |-> Or(md.spaceName, Str("l2")),
                       numDimensions |-> Num(numDimensions),
                       maxElements |-> me.value,
                       m |-> Or(md.m, Num(16)),
                       efConstruction |-> Or(md.efConstruction, Num(200)),
                       randomSeed |-> Or(md.randomSeed, Num(100)),
                       numVectors |-> Num(Len(vectors)),
                       vectors |-> Arr([i \in 1..Len(vectors) |->
                                          Obj([label |-> Num(vectors[i].label),
                                               point |-> Arr(vectors[i].point)])])])]

(***************************************************************************)
(* File contents.  A file under a binary name holds bytes; a file under    *)
(* any other name holds text, kept as the value JSON.parse returns for it  *)
(* (NotJson when the text does not parse).                                 *)
(***************************************************************************)
Absent == [kind |-> "absent"]
Bytes(b) == [kind |-> "bytes", data |-> b]
Text(v) == [kind |-> "text", json |-> v]
NotJson == [type |-> "syntaxerror"]

\* Property access data.key on a parsed value.
Get(v, key) ==
    IF v.type = "object" /\ key \in DOMAIN v.fields THEN v.fields[key] ELSE Undefined

(***************************************************************************)
(* The outcome of a decode: the error thrown (NoError on success), the     *)
(* calls made on the hnswlib module (constructor, initIndex, addPoint),    *)
(* with their names in call order in calls, the buffer reads performed and *)
(* the metadata returned.  failAt is the addPoint call the new index       *)
(* rejects (0: it accepts them all).                                       *)
(***************************************************************************)
NoOutcome ==
    [error |-> NoError, reads |-> <<>>, sized |-> FALSE, constructed |-> <<>>,
     init |-> <<>>, inserted |-> <<>>, metadata |-> Undefined, offset |-> 0,
     calls |-> <<>>]

Fail(out, message) == IF out.error # NoError THEN out ELSE [out EXCEPT !.error = message]

Read(out, width) ==
    [out EXCEPT !.reads = Append(@, [offset |-> out.offset, width |-> width]),
                !.offset = @ + width]

\* new hnswlib.HierarchicalNSW(spaceName, numDimensions, '')
Construct(out, spaceName, numDimensions) ==
    [out EXCEPT !.constructed = Append(@, <<spaceName, numDimensions, Str("")>>),
                !.calls = Append(@, "HierarchicalNSW")]

\* index.initIndex(maxElements, m, efConstruction, randomSeed)
InitIndex(out, maxElements, m, efConstruction, randomSeed) ==
    [out EXCEPT !.init = Append(@, <<maxElements, m, efConstruction, randomSeed>>),
                !.calls = Append(@, "initIndex")]

\* Mutant: a rejected insertion is skipped and the loop goes on.
AddPoint_Skip(out, point, label, failAt) ==
    IF Len(out.inserted) + 1 = failAt
    THEN [out EXCEPT !.calls = Append(@, "addPoint")]
    ELSE [out EXCEPT !.inserted =
             Append(@, [point |-> point, label |-> label, replaceDeleted |-> FALSE]),
                     !.calls = Append(@, "addPoint")]

\* index.addPoint(point, label, false)
AddPoint(out, point, label, failAt) ==
    IF Len(out.inserted) + 1 = failAt
    THEN Fail([out EXCEPT !.calls = Append(@, "addPoint")], "addPoint rejected")
    ELSE [out EXCEPT !.inserted =
             Append(@, [point |-> point, label |-> label, replaceDeleted |-> FALSE]),
                     !.calls = Append(@, "addPoint")]

\* Mutant: the minimum counts the header fields without the reserved bytes.
MinSize_FieldsOnly == 40 - 14

MinSize == 40
MaxNumDimensions == 100000
MaxNumVectors == 100000000

\* Mutant: zero dimensions pass the range check.
InvalidNumDimensions_AllowZero(numDimensions) ==
    numDimensions < 0 \/ numDimensions > 100000

InvalidNumDimensions(numDimensions) ==
    numDimensions <= 0 \/ numDimensions > MaxNumDimensions

InvalidNumVectors(numVectors) ==
    numVectors < 0 \/ numVectors > MaxNumVectors

\* Mutant: every length but the expected one is refused.
SizeTooSmall_NotExact(length, numVectors, vectorSize) ==
    \/ (length - 40) \div vectorSize # numVectors
    \/ (length - 40) % vectorSize # 0

\* Mutant: the records counted without their labels.
SizeTooSmall_NoLabel(length, numVectors, vectorSize) ==
    (length - 40) \div (vectorSize - 4) < numVectors

\* Mutant: only the header is required to be there.
SizeTooSmall_HeaderOnly(length, numVectors, vectorSize) == length < 40

\* buffer.length < 40 + numVectors * vectorSize, on integers of any size
\* (the product can exceed 32 bits).
SizeTooSmall(length, numVectors, vectorSize) ==
    (length - HeaderSize) \div vectorSize < numVectors

RECURSIVE ReadPoint(_, _, _, _, _)
ReadPoint(out, buffer, point, j, numDimensions) ==
    IF out.error # NoError \/ j >= numDimensions THEN [out |-> out, point |-> point]
    ELSE IF out.offset + 4 > Len(buffer)
         THEN [out |-> Fail(out, "Unexpected end of file while reading vector"),
               point |-> point]
         ELSE ReadPoint(Read(out, 4), buffer,
                        Append(point, ReadFloatLE(buffer, out.offset)),
                        j + 1, numDimensions)

RECURSIVE ReadVectors(_, _, _, _, _, _)
ReadVectors(out, buffer, i, numVectors, numDimensions, failAt) ==
    IF out.error # NoError \/ i >= numVectors THEN out
    ELSE IF out.offset + 4 > Len(buffer)
         THEN Fail(out, "Unexpected end of file while reading vector")
         ELSE LET label == ReadUInt32LE(buffer, out.offset)
                  rp == ReadPoint(Read(out, 4), buffer, <<>>, 0, numDimensions)
              IN  IF rp.out.error # NoError THEN rp.out
                  ELSE ReadVectors(AddPoint(rp.out, rp.point, Num(label), failAt),
                                   buffer, i + 1, numVectors, numDimensions, failAt)

\* Mutant: the code taken as a position counted from 1.
SpaceNameOf_OneBased(spaceNameCode) ==
    CASE spaceNameCode = 1 -> "l2"
      [] spaceNameCode = 2 -> "ip"
      [] spaceNameCode = 3 -> "cosine"
      [] OTHER -> "l2"

\* spaceNameMap[spaceNameCode] || 'l2'
SpaceNameOf(spaceNameCode) ==
    CASE spaceNameCode = 0 -> "l2"
      [] spaceNameCode = 1 -> "ip"
      [] spaceNameCode = 2 -> "cosine"
      [] OTHER -> "l2"

\* Mutant: an error in the try block is dropped and the index returned.
RecreateBinary_Swallow(out, buffer, md, numVectors, failAt) ==
    LET o1 == Construct(out, md.spaceName, md.numDimensions)
        o2 == InitIndex(o1, md.maxElements, md.m, md.efConstruction, md.randomSeed)
        o3 == ReadVectors(o2, buffer, 0, numVectors, md.numDimensions.val, failAt)
    IN  [o3 EXCEPT !.error = NoError, !.metadata = md]

\* The try block of loadIndexBinary: every error in it is wrapped.
RecreateBinary(out, buffer, md, numVectors, failAt) ==
    LET o1 == Construct(out, md.spaceName, md.numDimensions)
        o2 == InitIndex(o1, md.maxElements, md.m, md.efConstruction, md.randomSeed)
        o3 == ReadVectors(o2, buffer, 0, numVectors, md.numDimensions.val, failAt)
    IN  IF o3.error # NoError
        THEN [o3 EXCEPT !.error = Wrap("Failed to recreate index", @)]
        ELSE [o3 EXCEPT !.metadata = md]

\* loadIndexBinary after the file has been read.
LoadIndexBinary(buffer, failAt) ==
    IF Len(buffer) < MinSize
    THEN Fail(NoOutcome, "File too small to be a valid index file")
    ELSE
    LET version == ReadUInt8(buffer, 0)
        o1 == Read(NoOutcome, 1)
    IN  IF version # 1 THEN Fail(o1, "Unsupported binary format version")
        ELSE IF o1.offset >= Len(buffer)
        THEN Fail(o1, "Unexpected end of file while reading header")
        ELSE
    LET spaceNameCode == ReadUInt8(buffer, o1.offset)
        o2 == Read(o1, 1)
    IN  IF o2.offset + 24 > Len(buffer)
        THEN Fail(o2, "Unexpected end of file while reading header")
        ELSE
    LET numDimensions == ReadUInt32LE(buffer, o2.offset)
        maxElements == ReadUInt32LE(buffer, o2.offset + 4)
        m == ReadUInt32LE(buffer, o2.offset + 8)
        efConstruction == ReadUInt32LE(buffer, o2.offset + 12)
        randomSeed == ReadUInt32LE(buffer, o2.offset + 16)
        numVectors == ReadUInt32LE(buffer, o2.offset + 20)
        o8 == Read(Read(Read(Read(Read(Read(o2, 4), 4), 4), 4), 4), 4)
        o9 == [o8 EXCEPT !.offset = @ + 14]
        md == [spaceName |-> Str(SpaceNameOf(spaceNameCode)),
               numDimensions |-> Num(numDimensions),
               maxElements |-> Num(maxElements),
               m |-> Num(m),
               efConstruction |-> Num(efConstruction),
               randomSeed |-> Num(randomSeed)]
    IN  IF InvalidNumDimensions(numDimensions)
        THEN Fail(o9, "Invalid numDimensions")
        ELSE IF InvalidNumVectors(numVectors)
        THEN Fail(o9, "Invalid numVectors")
        ELSE IF SizeTooSmall(Len(buffer), numVectors, VectorSize(numDimensions))
        THEN Fail([o9 EXCEPT !.sized = TRUE], "File size mismatch")
        ELSE RecreateBinary([o9 EXCEPT !.sized = TRUE], buffer, md, numVectors, failAt)

(***************************************************************************)
(* loadIndexJSON after the file has been read and parsed.                  *)
(***************************************************************************)
\* Mutant: zero passes the test of numDimensions.
NotPositive_ZeroPasses(v) == IF IsInt(v) THEN v.val < 0 ELSE FALSE

\* data.numDimensions <= 0 on a number
NotPositive(v) == IF IsInt(v) THEN v.val <= 0 ELSE v.lit \in {"0", "-0"}

\* Mutant: the upper-case name is accepted too.
SpaceNames_AnyCase == {Str("l2"), Str("ip"), Str("cosine"), Str("L2")}

SpaceNames == {Str("l2"), Str("ip"), Str("cosine")}

\* point.length !== data.numDimensions
LengthDiffers(point, numDimensions) ==
    ~(IsInt(numDimensions) /\ Len(point.items) = numDimensions.val)

RECURSIVE AddVectors(_, _, _, _, _)
AddVectors(out, items, i, numDimensions, failAt) ==
    IF out.error # NoError \/ i > Len(items) THEN out
    ELSE IF items[i].type \in {"null", "undefined"}
         THEN Fail(out, "Cannot destructure property 'label'")
         ELSE LET label == Get(items[i], "label")
                  point == Get(items[i], "point")
              IN  IF label.type # "number"
                  THEN Fail(out, "Invalid label")
                  ELSE IF point.type # "array" \/ LengthDiffers(point, numDimensions)
                  THEN Fail(out, "Invalid vector")
                  ELSE AddVectors(AddPoint(out, point.items, label, failAt),
                                  items, i + 1, numDimensions, failAt)

\* The try block of loadIndexJSON: every error in it is wrapped.
RecreateJSON(out, data, failAt) ==
    LET md == [spaceName |-> Get(data, "spaceName"),
               numDimensions |-> Get(data, "numDimensions"),
               maxElements |-> Or(Get(data, "maxElements"), Num(100)),
               m |-> Or(Get(data, "m"), Num(16)),
               efConstruction |-> Or(Get(data, "efConstruction"), Num(200)),
               randomSeed |-> Or(Get(data, "randomSeed"), Num(100))]
        o1 == Construct(out, md.spaceName, md.numDimensions)
        o2 == InitIndex(o1, md.maxElements, md.m, md.efConstruction, md.randomSeed)
        o3 == AddVectors(o2, Get(data, "vectors").items, 1, md.numDimensions, failAt)
    IN  IF o3.error # NoError
        THEN [o3 EXCEPT !.error = Wrap("Failed to recreate index", @)]
        ELSE [o3 EXCEPT !.metadata = md]

LoadIndexJSON(data, failAt) ==
    IF data = NotJson THEN Fail(NoOutcome, "Invalid JSON file")
    ELSE IF data.type \in {"null", "undefined"}
    THEN Fail(NoOutcome, "Cannot read properties of null (reading 'vectors')")
    ELSE IF ~Truthy(Get(data, "vectors")) \/ Get(data, "vectors").type # "array"
    THEN Fail(NoOutcome, "Invalid index file format: missing or invalid vectors array")
    ELSE IF Get(data, "numDimensions").type # "number"
            \/ NotPositive(Get(data, "numDimensions"))
    THEN Fail(NoOutcome, "Invalid index file format: invalid numDimensions")
    ELSE IF ~Truthy(Get(data, "spaceName")) \/ Get(data, "spaceName") \notin SpaceNames
    THEN Fail(NoOutcome, "Invalid spaceName")
    ELSE RecreateJSON(NoOutcome, data, failAt)

(***************************************************************************)
(* The logger.  A logger is an object whose members are functions, named   *)
(* here by what they do with a message: "noop" drops it, "console.error"   *)
(* prints it on stderr, any other name is a function of the caller.        *)
(***************************************************************************)
DefaultLogger == [log |-> "noop", error |-> "console.error"]

\* Mutant: the new members laid over the logger in use.
Spread_OverCurrent(base, custom) ==
    IF custom.type # "object" THEN logger
    ELSE [k \in DOMAIN logger \cup DOMAIN custom.fields |->
            IF k \in DOMAIN custom.fields THEN custom.fields[k] ELSE logger[k]]

\* { ...base, ...custom }: the own members of custom over those of base;
\* spreading undefined or null adds nothing.
Spread(base, custom) ==
    IF custom.type # "object" THEN base
    ELSE [k \in DOMAIN base \cup DOMAIN custom.fields |->
            IF k \in DOMAIN custom.fields THEN custom.fields[k] ELSE base[k]]

\* setLogger(customLogger)
SetLogger(custom) ==
    /\ logger' = Spread(DefaultLogger, custom)
    /\ customLogger' = custom
    /\ UNCHANGED <<index, filename, metadata, fs, save, load, other>>

(***************************************************************************)
(* The two entry points.  Each call runs to its next await in one step;    *)
(* the caller awaits a call before making the next one.  A call invokes    *)
(* the logger at most once: sink is the function it invoked.               *)
(***************************************************************************)
IdleSave ==
    [pc |-> "idle", error |-> NoError, logged |-> 0, info |-> 0, writes |-> 0,
     pending |-> Absent, numDimensions |-> 0, vectors |-> <<>>, codec |-> "none",
     sink |-> "none"]

IdleLoad ==
    [pc |-> "idle", error |-> NoError, logged |-> 0, info |-> 0, out |-> NoOutcome,
     codec |-> "none", sink |-> "none"]

NoCallInFlight == save.pc # "writing" /\ load.pc \notin {"access", "reading"}

\* A save that throws: through logger.error when the throw is inside the
\* try block of saveIndexToFile.
SaveThrows(message, inTry) ==
    [IdleSave EXCEPT !.pc = "failed", !.error = message,
                     !.logged = IF inTry THEN 1 ELSE 0,
                     !.sink = IF inTry THEN logger.error ELSE "none"]

\* saveIndexToFile from its call to the await of fs.writeFile.
SaveIndexToFile(idx, name, md) ==
    IF ValidateIndex(idx) # NoError THEN SaveThrows(ValidateIndex(idx), FALSE)
    ELSE IF ValidateFilename(name) # NoError THEN SaveThrows(ValidateFilename(name), FALSE)
    ELSE
    LET numDimensions == GetNumDimensions(idx)
        numVectors == GetCurrentCount(idx)
        extracted == ExtractVectorsFromIndex(idx)
        vectors == extracted.vectors
        bin == EncodeBinary(idx, md, numDimensions, vectors)
        json == EncodeJSON(idx, md, numDimensions, vectors)
        writing == [IdleSave EXCEPT !.pc = "writing", !.writes = 1,
                                    !.numDimensions = numDimensions,
                                    !.vectors = vectors]
    IN  IF numVectors = 0
        THEN SaveThrows("Cannot save empty index (no vectors added)", TRUE)
        ELSE IF extracted.error # NoError
        THEN SaveThrows(extracted.error, TRUE)
        ELSE IF IsBinary(name.val)
        THEN IF bin.error # NoError
             THEN [SaveThrows(Wrap("Failed to write binary file", bin.error), TRUE)
                      EXCEPT !.codec = "binary"]
             ELSE [writing EXCEPT !.pending = Bytes(bin.buffer), !.codec = "binary"]
        ELSE IF json.error # NoError
             THEN [SaveThrows(json.error, TRUE) EXCEPT !.codec = "text"]
             ELSE [writing EXCEPT !.pending = Text(Stringified(json.data)),
                                  !.codec = "text"]

SaveCall ==
    /\ NoCallInFlight
    /\ save' = SaveIndexToFile(index, filename, metadata)
    /\ load' = IdleLoad
    /\ UNCHANGED <<index, filename, metadata, fs>>
    /\ UNCHANGED aside

\* Mutant: the output is built from the index when the write is carried out.
Written_AtCompletion(call) == SaveIndexToFile(index, filename, metadata).pending

\* What fs.writeFile stores: its data argument, the string or the buffer
\* that was complete when the call was made.
Written(call) == call.pending

\* fs.writeFile resolves: the file holds the whole output, logger.log runs.
SaveWriteOk ==
    /\ save.pc = "writing"
    /\ fs' = [fs EXCEPT ![filename.val] = Written(save)]
    /\ save' = [save EXCEPT !.pc = "done", !.info = 1, !.sink = logger.log]
    /\ UNCHANGED <<index, filename, metadata, load>>
    /\ UNCHANGED aside

\* What a failed write leaves of a file: the file as it was, or a file
\* opened for writing and left empty.
Truncated(content) == IF content.kind = "bytes" THEN Bytes(<<>>) ELSE Text(NotJson)

\* fs.writeFile rejects: the error is wrapped and reaches the catch block.
SaveWriteFail ==
    /\ save.pc = "writing"
    /\ \E left \in {fs[filename.val], Truncated(save.pending)} :
          fs' = [fs EXCEPT ![filename.val] = left]
    /\ save' = [save EXCEPT
          !.pc = "failed", !.logged = 1, !.sink = logger.error,
          !.error = Wrap(IF save.codec = "binary" THEN "Failed to write binary file"
                         ELSE "Failed to write JSON file", "EIO")]
    /\ UNCHANGED <<index, filename, metadata, load>>
    /\ UNCHANGED aside

\* loadIndexFromFile from its call to the await of fs.access.
LoadCall(hnswlibOk) ==
    /\ NoCallInFlight
    /\ load' =
          IF ValidateFilename(filename) # NoError
          THEN [IdleLoad EXCEPT !.pc = "failed", !.error = ValidateFilename(filename)]
          ELSE IF ~hnswlibOk
          THEN [IdleLoad EXCEPT !.pc = "failed",
                   !.error = "Invalid hnswlib module: HierarchicalNSW constructor not found"]
          ELSE [IdleLoad EXCEPT !.pc = "access"]
    /\ UNCHANGED <<index, filename, metadata, fs, save>>
    /\ UNCHANGED aside

\* fs.access settles.
LoadAccess ==
    /\ load.pc = "access"
    /\ load' = IF fs[filename.val] = Absent
               THEN [load EXCEPT !.pc = "failed", !.error = "File not found"]
               ELSE [load EXCEPT !.pc = "reading"]
    /\ UNCHANGED <<index, filename, metadata, fs, save>>
    /\ UNCHANGED aside

\* Mutant: '.dat' is not taken for a binary name.
LoadIsBinary_BinOnly(name) == EndsWith(name, ".bin")

\* The format loadIndexFromFile chooses from the file extension.
LoadIsBinary(name) == EndsWith(name, ".bin") \/ EndsWith(name, ".dat")

\* What a codec makes of a file: the binary codec of bytes and the text
\* codec of text as above; the text codec finds no JSON in the bytes of the
\* model; the binary codec finds a text too small, or its first byte not 1.
Decodes(binary, content, failAt) ==
    IF binary
    THEN IF content.kind = "bytes" THEN {LoadIndexBinary(content.data, failAt)}
         ELSE {Fail(NoOutcome, "File too small to be a valid index file"),
               Fail(Read(NoOutcome, 1), "Unsupported binary format version")}
    ELSE IF content.kind = "text" THEN {LoadIndexJSON(content.json, failAt)}
         ELSE {LoadIndexJSON(NotJson, failAt)}

\* fs.readFile resolves and the codec runs to its return or throw; an error
\* passes through the catch block of loadIndexFromFile.
LoadRead(failAt) ==
    /\ load.pc = "reading"
    /\ LET binary == LoadIsBinary(filename.val)
           codec == IF binary THEN "binary" ELSE "text"
       IN  \E out \in Decodes(binary, fs[filename.val], failAt) :
             load' = IF out.error # NoError
                     THEN [load EXCEPT !.pc = "failed", !.error = out.error,
                                       !.logged = 1, !.out = out, !.codec = codec,
                                       !.sink = logger.error]
                     ELSE [load EXCEPT !.pc = "done", !.info = 1, !.out = out,
                                       !.codec = codec, !.sink = logger.log]
    /\ UNCHANGED <<index, filename, metadata, fs, save>>
    /\ UNCHANGED aside

\* fs.readFile rejects.
LoadReadFail ==
    /\ load.pc = "reading"
    /\ load' = [load EXCEPT !.pc = "failed", !.logged = 1, !.sink = logger.error,
                            !.error = Wrap("Failed to read file", "EIO"),
                            !.codec = IF LoadIsBinary(filename.val) THEN "binary"
                                      ELSE "text"]
    /\ UNCHANGED <<index, filename, metadata, fs, save>>
    /\ UNCHANGED aside

(***************************************************************************)
(* Calls that overlap.  While the write of a saveIndexToFile call is       *)
(* pending the caller may go on: change the index, save another index      *)
(* under another name, set the logger.                                     *)
(***************************************************************************)
IdleOther == [call |-> IdleSave, filename |-> ""]

\* index.addPoint of a new label, index.markDelete of the first label,
\* index.addPoint of the first label (its point is replaced).
Mutations(idx) ==
    {[idx EXCEPT !.elements =
         Append(@, [label |-> 99, point |-> [j \in 1..idx.numDimensions |-> Dbl("0.5")],
                    deleted |-> FALSE])],
     [idx EXCEPT !.elements[1].deleted = TRUE],
     [idx EXCEPT !.elements[1].point = [j \in 1..idx.numDimensions |-> Dbl("1")]]}

MutateIndex ==
    /\ save.pc = "writing"
    /\ Len(index.elements) \in 1..MaxVectors
    /\ \E changed \in Mutations(index) : index' = changed
    /\ UNCHANGED <<filename, metadata, fs, save, load, other, logger, customLogger>>

\* A second saveIndexToFile call, to its await of fs.writeFile.
OtherSaveCall(idx, name, md) ==
    /\ save.pc = "writing"
    /\ other.call.pc # "writing"
    /\ name # filename.val
    /\ other' = [call |-> SaveIndexToFile(idx, Str(name), md), filename |-> name]
    /\ UNCHANGED <<index, filename, metadata, fs, save, load, logger, customLogger>>

OtherWriteOk ==
    /\ other.call.pc = "writing"
    /\ fs' = [fs EXCEPT ![other.filename] = other.call.pending]
    /\ other' = [other EXCEPT !.call.pc = "done", !.call.info = 1,
                              !.call.sink = logger.log]
    /\ UNCHANGED <<index, filename, metadata, save, load, logger, customLogger>>

OtherWriteFail ==
    /\ other.call.pc = "writing"
    /\ \E left \in {fs[other.filename], Truncated(other.call.pending)} :
          fs' = [fs EXCEPT ![other.filename] = left]
    /\ other' = [other EXCEPT
          !.call.pc = "failed", !.call.logged = 1, !.call.sink = logger.error,
          !.call.error = Wrap(IF other.call.codec = "binary"
                              THEN "Failed to write binary file"
                              ELSE "Failed to write JSON file", "EIO")]
    /\ UNCHANGED <<index, filename, metadata, save, load, logger, customLogger>>

(***************************************************************************)
(* The inputs of the model.                                                *)
(***************************************************************************)
FileNames == {"v.bin", "v.dat", "v.json", "v"}

\* Names whose extension is in another case, is the whole name, or is not
\* the end of the name.
OtherFileNames == {"v.BIN", ".dat", "v.bin.json", "bin"}
AllFileNames == FileNames \cup OtherFileNames
BadFileNames == {Undefined, Str(""), Str("  "), Num(5)}

\* Vector components: doubles that float32 holds exactly, 0.1 (rounded by
\* float32), 1e39 (beyond the float32 range) and -0.
Pool == <<"0.1", "1", "1e39", "-0", "0.5", "0">>
Patterns == {0, 1, 3}

PatternPoint(p, i, d) == [j \in 1..d |-> Dbl(Pool[((p + i + j) % Len(Pool)) + 1])]

\* Labels in insertion order: ascending from 0, or descending and sparse.
LabelSeqs(n) == {[i \in 1..n |-> i - 1], [i \in 1..n |-> 300 * (n - i) + 7]}

MakeIndex(d, elements) ==
    [type |-> "object", methods |-> AllMethods, numDimensions |-> d,
     maxElements |-> 10, elements |-> elements, throwing |-> {}, noPoint |-> {}]

BaseElements(d, n) ==
    [i \in 1..n |-> [label |-> i - 1, point |-> PatternPoint(0, i, d), deleted |-> FALSE]]

\* Indexes whose points all have numDimensions finite components; any of
\* the points may be marked deleted.
SoundIndexesOf(d, n) ==
    { MakeIndex(d, [i \in 1..n |-> [label |-> labels[i],
                                    point |-> PatternPoint(p, i, d),
                                    deleted |-> i \in del]]) :
        p \in Patterns, labels \in LabelSeqs(n), del \in SUBSET (1..n) }

\* A point of the wrong length, or with a component that is no finite number.
Defects(point) ==
    {SubSeq(point, 1, Len(point) - 1), Append(point, Dbl("1"))}
        \cup {[point EXCEPT ![k] = bad] :
                 k \in 1..Len(point),
                 bad \in {Dbl("NaN"), Dbl("Infinity"), Str("1")}}

UnsoundIndexesOf(d, n) ==
    UNION { { MakeIndex(d, [BaseElements(d, n) EXCEPT ![e].point = q]) :
                q \in Defects(PatternPoint(0, e, d)) } : e \in 1..n }

Dims == 1..MaxDim
Counts == 0..MaxVectors

Indexes ==
    UNION { SoundIndexesOf(d, n) \cup UnsoundIndexesOf(d, n) : d \in Dims, n \in Counts }

CoreIndex == MakeIndex(MaxDim, BaseElements(MaxDim, MaxVectors))
NullIndex == [type |-> "null"]

\* Indexes whose getUsedLabels throws, or whose getPoint throws for the
\* first or the last label, and one that yields a label twice.
ThrowingIndexes ==
    {[CoreIndex EXCEPT !.throwing = {"getUsedLabels"}],
     [CoreIndex EXCEPT !.noPoint = {0}],
     [CoreIndex EXCEPT !.noPoint = {MaxVectors - 1}],
     [MakeIndex(MaxDim, <<>>) EXCEPT !.throwing = {"getUsedLabels"}]}

RepeatingIndex ==
    MakeIndex(1, [i \in 1..3 |-> [label |-> IF i = 2 THEN 3 ELSE 7,
                                   point |-> IF i = 2 THEN <<Dbl("1")>> ELSE <<Dbl("0.5")>>,
                                   deleted |-> FALSE]])

\* Objects that lack a method.
PartialIndexes ==
    { [CoreIndex EXCEPT !.methods = AllMethods \ {missing}] :
        missing \in {"getPoint", "getMaxElements", "addPoint"} }

EmptyMetadata ==
    [spaceName |-> Undefined, maxElements |-> Undefined, m |-> Undefined,
     efConstruction |-> Undefined, randomSeed |-> Undefined]
FullMetadata ==
    [spaceName |-> Str("cosine"), maxElements |-> Num(1000), m |-> Num(32),
     efConstruction |-> Num(400), randomSeed |-> Num(7)]

\* A spaceName that is the name of an inherited member, or a number.
OddSpaceNames == {Str("toString"), Num(1)}

Metadatas ==
    [spaceName : {Undefined, Str("l2"), Str("ip"), Str("cosine"), Str("euclidean")},
     maxElements : {Undefined, Num(0), Num(1000)},
     m : {Undefined, Num(0), Num(32)},
     efConstruction : {Undefined, Num(0), Num(400)},
     randomSeed : {Undefined, Num(0), Num(2147483647)}]
        \cup {[md EXCEPT !.spaceName = s] :
                 md \in {EmptyMetadata, FullMetadata}, s \in OddSpaceNames}

\* What the destination may hold before a save.
OldContent(name) == IF IsBinary(name) THEN Bytes(<<1, 2, 3>>) ELSE Text(Str("old"))

(***************************************************************************)
(* Files the program did not write.  A binary file is a header with the    *)
(* given fields, followed by records, cut or padded to a length.           *)
(***************************************************************************)
EnvBody(numDimensions, length) ==
    LET size == VectorSize(numDimensions)
    IN  [q \in 1..length |->
            LET r == (q - 1) \div size
                at == (q - 1) % size
            IN  IF at < 4 THEN UInt32LE(r + 5)[at + 1]
                ELSE FloatLE(Pool[((r + (at \div 4)) % Len(Pool)) + 1])[(at % 4) + 1]]

EnvBuffer(version, code, numDimensions, numVectors, length) ==
    LET header == <<version, code>> \o UInt32LE(numDimensions) \o UInt32LE(1000)
                      \o UInt32LE(0) \o UInt32LE(400) \o UInt32LE(7)
                      \o UInt32LE(numVectors) \o [i \in 1..ReservedSize |-> 9]
    IN  IF length <= HeaderSize THEN SubSeq(header, 1, length)
        ELSE header \o EnvBody(numDimensions, length - HeaderSize)

EnvLengths(numDimensions, numVectors) ==
    {0, 1, 39, 40}
        \cup IF numDimensions <= 2 /\ numVectors <= 2
             THEN {BufferSize(numDimensions, numVectors) + k : k \in {-1, 0, 1}}
             ELSE {BufferSize(1, 2)}

EnvVersionsAndCodes ==
    {<<1, code>> : code \in {0, 1, 2, 3, 255}} \cup ({0, 2, 123} \X {0, 255})

EnvVectors(d, n) ==
    Arr([i \in 1..n |-> Obj([label |-> Num(i - 1), point |-> Arr(PatternPoint(1, i, d))])])

EnvDocs ==
    { Obj([version |-> Num(1), spaceName |-> sp, numDimensions |-> Num(d),
           maxElements |-> prm[1], m |-> prm[2], efConstruction |-> prm[3],
           randomSeed |-> prm[4], numVectors |-> Num(n), vectors |-> EnvVectors(d, n)]) :
        sp \in {Undefined, Null, Str(""), Str("l2"), Str("ip"), Str("cosine"),
                Str("L2"), Num(1)},
        d \in {1, 2}, n \in {0, 1, 2},
        prm \in {<<Undefined, Undefined, Undefined, Undefined>>,
                 <<Num(50), Num(8), Num(0), Num(3)>>} }

\* A document as saveIndexJSON writes it, and documents that differ from it
\* in one place: the top-level value, the vectors entry, numDimensions, one
\* record, the declared count, one optional parameter.
BaseDoc ==
    Obj([version |-> Num(1), spaceName |-> Str("l2"), numDimensions |-> Num(2),
         maxElements |-> Num(50), m |-> Num(8), efConstruction |-> Num(300),
         randomSeed |-> Num(3), numVectors |-> Num(2), vectors |-> EnvVectors(2, 2)])

With(doc, key, v) == Obj([doc.fields EXCEPT ![key] = v])
Without(doc, key) == Obj([k \in DOMAIN doc.fields \ {key} |-> doc.fields[k]])

GoodRecord == Obj([label |-> Num(0), point |-> Arr(PatternPoint(1, 1, 2))])

BadRecords ==
    {Null, Num(5),
     Obj([point |-> Arr(PatternPoint(1, 2, 2))]),
     Obj([label |-> Str("1"), point |-> Arr(PatternPoint(1, 2, 2))]),
     Obj([label |-> Num(1)]),
     Obj([label |-> Num(1), point |-> Str("ab")]),
     Obj([label |-> Num(1), point |-> Arr(PatternPoint(1, 2, 1))]),
     Obj([label |-> Num(1), point |-> Arr(PatternPoint(1, 2, 3))])}

EnvOddDocs ==
    {Num(5), Str("text"), Arr(<<>>), Arr(<<BaseDoc>>), Without(BaseDoc, "vectors"),
     Without(BaseDoc, "numDimensions"), Without(BaseDoc, "numVectors")}
        \cup {With(BaseDoc, "vectors", v) : v \in {Null, Num(0), Str("ab"), GoodRecord}}
        \cup {With(With(BaseDoc, "vectors", vs), "numDimensions", nd) :
                 vs \in {Arr(<<>>), EnvVectors(2, 2)},
                 nd \in {Null, Str("2"), Num(0), Num(-1), Dbl("1.5"), Num(100000),
                         Num(100001)}}
        \cup {With(BaseDoc, "vectors", Arr(recs)) :
                 recs \in UNION {{<<bad>>, <<GoodRecord, bad>>, <<bad, GoodRecord>>} :
                                    bad \in BadRecords}}
        \cup {With(BaseDoc, "numVectors", n) : n \in {Num(0), Num(1), Num(5), Str("2")}}
        \cup {With(BaseDoc, key, v) :
                 key \in {"maxElements", "m", "efConstruction", "randomSeed"},
                 v \in {Num(0), Null}}
        \cup {Without(BaseDoc, key) :
                 key \in {"maxElements", "m", "efConstruction", "randomSeed"}}

\* The arguments of the calls and the file system they start on.
Start(idx, md, name, content) ==
    /\ index = idx
    /\ metadata = md
    /\ filename = name
    /\ fs = [n \in AllFileNames |-> IF name = Str(n) THEN content ELSE Absent]

\* Before any setLogger call.
NoSetLogger == [type |-> "nocall"]

\* Every index with no metadata and no destination yet, and with full
\* metadata over a destination that exists; every metadata argument with the plain index; files
\* the program did not write; filenames that are no filename.
Init ==
    /\ save = IdleSave
    /\ load = IdleLoad
    /\ other = IdleOther
    /\ logger = DefaultLogger
    /\ customLogger = NoSetLogger
    /\ \/ \E n \in FileNames,
               idx \in Indexes \cup PartialIndexes \cup {NullIndex} \cup ThrowingIndexes
                          \cup {RepeatingIndex} :
                \/ Start(idx, EmptyMetadata, Str(n), Absent)
                \/ Start(idx, FullMetadata, Str(n), OldContent(n))
       \/ \E n \in FileNames, md \in Metadatas :
                Start(CoreIndex, md, Str(n), Absent)
       \/ \E n \in {"v.bin", "v.dat"}, vc \in EnvVersionsAndCodes,
             nd \in {0, 1, 2, 100000, 100001},
             nv \in {0, 1, 2, 100000000, 100000001} :
                \E length \in EnvLengths(nd, nv) :
                    Start(CoreIndex, FullMetadata, Str(n),
                          Bytes(EnvBuffer(vc[1], vc[2], nd, nv, length)))
       \/ \E n \in {"v.json", "v"}, v \in EnvDocs \cup EnvOddDocs \cup {NotJson, Null} :
                Start(CoreIndex, FullMetadata, Str(n), Text(v))
       \/ \E name \in BadFileNames :
                Start(CoreIndex, FullMetadata, name, Absent)
       \/ \E n \in OtherFileNames :
                \/ Start(CoreIndex, EmptyMetadata, Str(n), Absent)
                \/ Start(CoreIndex, FullMetadata, Str(n), OldContent(n))

Next ==
    \/ SaveCall
    \/ SaveWriteOk
    \/ SaveWriteFail
    \/ \E hnswlibOk \in BOOLEAN : LoadCall(hnswlibOk)
    \/ LoadAccess
    \/ \E failAt \in 0..MaxVectors : LoadRead(failAt)
    \/ LoadReadFail

Spec == Init /\ [][Next]_vars

(***************************************************************************)
(* Overlapping calls: the index of the first call changes while its write  *)
(* is pending, and a second index is saved under another name.             *)
(***************************************************************************)
OtherIndex ==
    MakeIndex(1, [i \in 1..2 |-> [label |-> 40 + i, point |-> <<Dbl("0.5")>>,
                                   deleted |-> FALSE]])

InitConcurrent ==
    /\ save = IdleSave
    /\ load = IdleLoad
    /\ other = IdleOther
    /\ logger = DefaultLogger
    /\ customLogger = NoSetLogger
    /\ \E n \in {"v.bin", "v.json"} : Start(CoreIndex, FullMetadata, Str(n), OldContent(n))

NextConcurrent ==
    \/ SaveCall
    \/ SaveWriteOk
    \/ SaveWriteFail
    \/ \E hnswlibOk \in BOOLEAN : LoadCall(hnswlibOk)
    \/ LoadAccess
    \/ LoadRead(0)
    \/ LoadReadFail
    \/ MutateIndex
    \/ \E name \in {"v.dat", "v"} : OtherSaveCall(OtherIndex, name, EmptyMetadata)
    \/ OtherWriteOk
    \/ OtherWriteFail

SpecConcurrent == InitConcurrent /\ [][NextConcurrent]_vars

(***************************************************************************)
(* The logger set between and during calls.                                *)
(***************************************************************************)
CustomLoggers ==
    {Undefined,
     Obj([log |-> "print"]),
     Obj([error |-> "report"]),
     Obj([log |-> "drop", error |-> "drop"]),
     Obj([warn |-> "warn"])}

InitLogger ==
    /\ save = IdleSave
    /\ load = IdleLoad
    /\ other = IdleOther
    /\ logger = DefaultLogger
    /\ customLogger = NoSetLogger
    /\ \E n \in {"v.bin", "v.json"} :
          \/ Start(CoreIndex, FullMetadata, Str(n), Absent)
          \/ Start(MakeIndex(1, <<>>), EmptyMetadata, Str(n), OldContent(n))

NextLogger ==
    \/ SaveCall
    \/ SaveWriteOk
    \/ SaveWriteFail
    \/ \E hnswlibOk \in BOOLEAN : LoadCall(hnswlibOk)
    \/ LoadAccess
    \/ \E failAt \in 0..MaxVectors : LoadRead(failAt)
    \/ LoadReadFail
    \/ \E custom \in CustomLoggers : SetLogger(custom)

SpecLogger == InitLogger /\ [][NextLogger]_vars

(***************************************************************************)
(* Properties.  Decoded holds once a codec has run on the file under       *)
(* filename: a save resets the load, so the file is still the one decoded. *)
(***************************************************************************)
Decoded == load.pc \in {"done", "failed"} /\ load.out # NoOutcome

BinaryName ==
    /\ filename.type = "string"
    /\ Len(filename.val) >= 4
    /\ SubSeq(filename.val, Len(filename.val) - 3, Len(filename.val)) \in {".bin", ".dat"}

TextName ==
    /\ filename.type = "string"
    /\ filename.val \in {"v.json", "v", "v.BIN", "v.bin.json", "bin"}

TheBytes == fs[filename.val].data
TheJson == fs[filename.val].json

\* The header fields of a byte sequence of at least 40 bytes.
FieldAt(bytes, at) ==
    bytes[at + 1] + 256 * bytes[at + 2] + 65536 * bytes[at + 3] + 16777216 * bytes[at + 4]

NumDimensionsIn(bytes) == FieldAt(bytes, 2)
NumVectorsIn(bytes) == FieldAt(bytes, 22)

InRangeHeader(bytes) ==
    /\ Len(bytes) >= 40
    /\ bytes[1] = 1
    /\ NumDimensionsIn(bytes) \in 1..100000
    /\ NumVectorsIn(bytes) \in 0..100000000

\* The records the header announces do not fit in the bytes after it
\* (a quotient, so that no product leaves the integers of the checker).
ShorterThanAnnounced(bytes) ==
    (Len(bytes) - 40) \div (4 + 4 * NumDimensionsIn(bytes)) < NumVectorsIn(bytes)

NothingCreated ==
    /\ load.out.constructed = <<>>
    /\ load.out.init = <<>>
    /\ load.out.inserted = <<>>

AdapterRejected == load.error = "Failed to recreate index: addPoint rejected"

\* The records getUsedLabels and getPoint yield.
LiveRecords == {i \in 1..Len(index.elements) : ~index.elements[i].deleted}

SoundRecord(i) ==
    /\ Len(index.elements[i].point) = index.numDimensions
    /\ \A j \in 1..Len(index.elements[i].point) :
          LET v == index.elements[i].point[j]
          IN  /\ v.type = "number"
              /\ "lit" \in DOMAIN v
              /\ v.lit \notin {"NaN", "Infinity", "-Infinity"}

SavableIndex ==
    /\ index.type = "object"
    /\ {"getNumDimensions", "getCurrentCount", "getUsedLabels", "getPoint"}
          \subseteq index.methods

\* A component as the format keeps it: rounded to float32 in a binary file,
\* the double itself in a text file; -0 and 0 are the same number.
Kept(lit) ==
    LET r == IF BinaryName THEN Fround(lit) ELSE lit
    IN  IF r = "-0" THEN "0" ELSE r

SavedPairs ==
    { <<save.vectors[i].label,
        [j \in 1..Len(save.vectors[i].point) |-> Kept(save.vectors[i].point[j].lit)]>> :
          i \in 1..Len(save.vectors) }

InsertedPairs ==
    { <<load.out.inserted[i].label.val,
        [j \in 1..Len(load.out.inserted[i].point) |->
            Kept(load.out.inserted[i].point[j].lit)]>> :
          i \in 1..Len(load.out.inserted) }

MetadataLoadable == metadata.spaceName \in {Undefined, Str("l2"), Str("ip"), Str("cosine")}

\* C1: after a save that succeeded, a load of the same file, unless the
\* adapter itself rejects a record, succeeds and inserts exactly the saved
\* (label, vector) pairs, neither more nor fewer: the vectors compared at
\* float32 precision for a binary file and exactly for a text file.  The
\* saved index holds finite vectors of its dimension and the metadata
\* names a space the loader knows (or none).
C1_RecordRoundTrip ==
    ( /\ save.pc = "done"
      /\ Decoded
      /\ ~AdapterRejected
      /\ MetadataLoadable
      /\ \A i \in LiveRecords : SoundRecord(i) )
    => /\ load.pc = "done"
       /\ load.error = NoError
       /\ Len(load.out.inserted) = Cardinality(LiveRecords)
       /\ InsertedPairs = SavedPairs
       /\ SavedPairs =
            { <<index.elements[i].label,
                [j \in 1..index.numDimensions |-> Kept(index.elements[i].point[j].lit)]>> :
                  i \in LiveRecords }

\* A binary save of two records or more, one with the component 0.1, loaded back.
C1_Witness ==
    /\ save.pc = "done"
    /\ load.pc = "done"
    /\ BinaryName
    /\ Len(load.out.inserted) >= 2
    /\ \E i \in LiveRecords : \E j \in 1..index.numDimensions :
          index.elements[i].point[j] = Dbl("0.1")

MetadataComplete ==
    /\ metadata.spaceName \in {Str("l2"), Str("ip"), Str("cosine")}
    /\ \A k \in {"maxElements", "m", "efConstruction", "randomSeed"} :
          metadata[k].type = "number"

\* C2: a save with a metadata object that gives a valid space name and
\* numbers for maxElements, m, efConstruction and randomSeed, followed by a
\* load that succeeds, returns those same values, with the numDimensions
\* of the saved index.  (The code does not keep a field given as 0.)
C2_MetadataRoundTrip ==
    (save.pc = "done" /\ load.pc = "done" /\ MetadataComplete)
    => load.out.metadata =
          [spaceName |-> metadata.spaceName,
           numDimensions |-> Num(index.numDimensions),
           maxElements |-> metadata.maxElements,
           m |-> metadata.m,
           efConstruction |-> metadata.efConstruction,
           randomSeed |-> metadata.randomSeed]

\* C3: a binary file with a whole header, version 1 and counts in range,
\* that is shorter than header + numVectors records is rejected with the
\* size error before any index is constructed and before any read beyond
\* the header.
C3_TruncationSafety ==
    (Decoded /\ BinaryName /\ InRangeHeader(TheBytes) /\ ShorterThanAnnounced(TheBytes))
    => /\ load.pc = "failed"
       /\ load.error = "File size mismatch"
       /\ NothingCreated
       /\ \A k \in 1..Len(load.out.reads) :
             load.out.reads[k].offset + load.out.reads[k].width <= 40

\* A file cut inside its records is rejected.
C3_Witness ==
    /\ Decoded
    /\ BinaryName
    /\ InRangeHeader(TheBytes)
    /\ ShorterThanAnnounced(TheBytes)
    /\ Len(TheBytes) > 40
    /\ load.error = "File size mismatch"

VersionRejected ==
    /\ load.pc = "failed"
    /\ load.error = "Unsupported binary format version"
    /\ load.out.reads = <<[offset |-> 0, width |-> 1]>>
    /\ NothingCreated

\* C4 as stated: any binary file whose first byte is not 1 is rejected
\* with the unsupported-version error after the read of that byte alone.
C4_VersionGate_AnyLength ==
    (Decoded /\ BinaryName /\ Len(TheBytes) >= 1 /\ TheBytes[1] # 1)
    => VersionRejected

\* C4: a binary file of at least 40 bytes whose first byte is not 1 is
\* rejected with the unsupported-version error, no other header field
\* having been read; a shorter file is rejected as too small before any
\* byte of it is read, whatever its first byte.
C4_VersionGate ==
    (Decoded /\ BinaryName)
    => /\ (Len(TheBytes) >= 40 /\ TheBytes[1] # 1) => VersionRejected
       /\ Len(TheBytes) < 40
            => /\ load.pc = "failed"
               /\ load.error = "File too small to be a valid index file"
               /\ load.out.reads = <<>>
               /\ NothingCreated

\* A whole file whose only fault is its version byte.
C4_Witness ==
    /\ Decoded
    /\ BinaryName
    /\ Len(TheBytes) > 40
    /\ TheBytes[1] # 1
    /\ NumDimensionsIn(TheBytes) \in 1..100000
    /\ ~ShorterThanAnnounced(TheBytes)
    /\ VersionRejected

\* The records in a content handed to fs.writeFile.
RecordsIn(content) ==
    IF content.kind = "bytes" THEN (Len(content.data) - 40) \div (4 + 4 * index.numDimensions)
    ELSE Len(content.json.fields.vectors.items)

\* C5: saveIndexToFile never writes a file that holds no vector record,
\* and an index whose getCurrentCount is 0 is rejected with the
\* empty-index error, nothing having been written.  (The code tests
\* getCurrentCount and writes the records of getUsedLabels.)
C5_EmptyIndexGuard ==
    /\ save.writes > 0 => RecordsIn(save.pending) > 0
    /\ ( /\ save.pc # "idle"
         /\ SavableIndex
         /\ filename \in {Str(n) : n \in FileNames}
         /\ Len(index.elements) = 0 )
       => /\ save.pc = "failed"
          /\ save.error = "Cannot save empty index (no vectors added)"
          /\ save.writes = 0

\* C6: a text file whose spaceName is absent or is not exactly 'l2', 'ip'
\* or 'cosine' is rejected, and no index is constructed for it.
C6_EnumGateText ==
    ( /\ Decoded
      /\ TextName
      /\ Get(TheJson, "spaceName") \notin {Str("l2"), Str("ip"), Str("cosine")} )
    => /\ load.pc = "failed"
       /\ load.error # NoError
       /\ NothingCreated

\* The name in the wrong case, in a file with nothing else wrong.
C6_Witness ==
    /\ Decoded
    /\ TextName
    /\ Get(TheJson, "spaceName") = Str("L2")
    /\ load.error = "Invalid spaceName"
    /\ NothingCreated

WholeFile(bytes) ==
    /\ InRangeHeader(bytes)
    /\ ~ShorterThanAnnounced(bytes)
    /\ Len(bytes) = 40 + NumVectorsIn(bytes) * (4 + 4 * NumDimensionsIn(bytes))

\* C7: a binary file with a valid header and the exact length loads
\* whatever its space name code: the index is created with 'ip' for 1,
\* 'cosine' for 2 and 'l2' for every other byte, and the returned metadata
\* say so.  Only the adapter can still reject a record.
C7_EnumLeniencyBinary ==
    (Decoded /\ BinaryName /\ WholeFile(TheBytes))
    => LET name == CASE TheBytes[2] = 1 -> Str("ip")
                     [] TheBytes[2] = 2 -> Str("cosine")
                     [] OTHER -> Str("l2")
       IN  /\ load.error = NoError \/ AdapterRejected
           /\ Len(load.out.constructed) = 1
           /\ load.out.constructed[1][1] = name
           /\ load.pc = "done" => load.out.metadata.spaceName = name

\* The code 255 loads as l2.
C7_Witness ==
    /\ Decoded
    /\ BinaryName
    /\ WholeFile(TheBytes)
    /\ TheBytes[2] = 255
    /\ NumVectorsIn(TheBytes) > 0
    /\ load.pc = "done"
    /\ load.out.metadata.spaceName = Str("l2")

\* C8: a binary save that issues its write hands over exactly
\* 40 + n * (4 + 4 * d) bytes, n being the number of extracted records and
\* d the index's numDimensions, with n as the little-endian u32 at offset
\* 22; when the write succeeds the file holds those bytes.
C8_BinarySize ==
    (save.pc \in {"writing", "done"} /\ BinaryName)
    => LET n == Cardinality(LiveRecords)
           d == index.numDimensions
           bytes == save.pending.data
       IN  /\ Len(bytes) = 40 + n * (4 + 4 * d)
           /\ NumVectorsIn(bytes) = n
           /\ \A k \in 1..Len(bytes) : bytes[k] \in 0..255
           /\ save.pc = "done" => fs[filename.val] = Bytes(bytes)

\* The largest index of the model written to a binary file.
C8_Witness ==
    /\ save.pc = "done"
    /\ BinaryName
    /\ Cardinality(LiveRecords) = MaxVectors
    /\ index.numDimensions = MaxDim
    /\ Len(fs[filename.val].data) = 40 + MaxVectors * (4 + 4 * MaxDim)

\* A binary save of an index one of whose extracted records is not a point
\* of numDimensions finite numbers.
BinaryUnsound ==
    /\ SavableIndex
    /\ BinaryName
    /\ \E i \in LiveRecords : ~SoundRecord(i)

\* C9: a binary save of an index one of whose extracted records has a point
\* of the wrong length or a component that is not a finite number fails
\* without issuing the write, so that no step changes the destination; and
\* a write is issued only with every record checked and every byte of the
\* buffer placed.
C9_BinaryEncodeAllOrNothing ==
    [][ /\ BinaryUnsound
          => /\ fs' = fs
             /\ save'.writes = 0
             /\ save'.pc \in {"idle", "failed"}
             /\ SaveCall => save'.pc = "failed"
        /\ (BinaryName /\ save'.pc = "writing")
          => /\ \A i \in LiveRecords : SoundRecord(i)
             /\ \A k \in 1..Len(save'.pending.data) : save'.pending.data[k] \in 0..255
      ]_vars

\* The save failed on a non-finite component and the file that was at the
\* destination is still there.
C9_Witness ==
    /\ BinaryUnsound
    /\ save.pc = "failed"
    /\ save.error = "Failed to write binary file: Invalid vector value"
    /\ save.writes = 0
    /\ fs[filename.val] = Bytes(<<1, 2, 3>>)

\* C10: a binary file with version 1 whose numDimensions is 0 or above
\* 100000, or whose numVectors is above 100000000, is rejected before the
\* expected size is computed and before any index is constructed; with
\* numVectors 0, a valid numDimensions and nothing after the header it
\* loads, as an index without records.
C10_HeaderRangeCheck ==
    (Decoded /\ BinaryName /\ Len(TheBytes) >= 40 /\ TheBytes[1] = 1)
    => LET nd == NumDimensionsIn(TheBytes)
           nv == NumVectorsIn(TheBytes)
       IN  /\ (nd = 0 \/ nd > 100000 \/ nv > 100000000)
             => /\ load.pc = "failed"
                /\ load.error = (IF nd = 0 \/ nd > 100000 THEN "Invalid numDimensions"
                                 ELSE "Invalid numVectors")
                /\ ~load.out.sized
                /\ NothingCreated
           /\ (nv = 0 /\ nd \in 1..100000)
             => /\ load.pc = "done"
                /\ load.error = NoError
                /\ load.out.sized
                /\ Len(load.out.constructed) = 1
                /\ load.out.inserted = <<>>

\* One record more than the limit.
C10_Witness ==
    /\ Decoded
    /\ BinaryName
    /\ Len(TheBytes) >= 40
    /\ TheBytes[1] = 1
    /\ NumDimensionsIn(TheBytes) \in 1..100000
    /\ NumVectorsIn(TheBytes) = 100000001
    /\ load.error = "Invalid numVectors"

\* The file under filename was handed to the text codec.
TextDecoded == Decoded /\ TextName

VectorsUnusable == Get(TheJson, "vectors").type # "array"

NumDimensionsUnusable ==
    LET nd == Get(TheJson, "numDimensions")
    IN  \/ nd.type # "number"
        \/ "val" \in DOMAIN nd /\ nd.val <= 0
        \/ "lit" \in DOMAIN nd /\ nd.lit \in {"0", "-0"}

\* C11: a text file that does not parse, or whose parsed value has no
\* vectors array, or no numDimensions that is a number above 0, is
\* rejected with no index constructed; also when the parsed value is null,
\* a number, a string or an array.
C11_TextStructuralValidation ==
    (TextDecoded /\ (TheJson = NotJson \/ VectorsUnusable \/ NumDimensionsUnusable))
    => /\ load.pc = "failed"
       /\ load.error \in
            {"Invalid JSON file",
             "Cannot read properties of null (reading 'vectors')",
             "Invalid index file format: missing or invalid vectors array",
             "Invalid index file format: invalid numDimensions"}
       /\ NothingCreated

\* A file that parses to an array of documents.
C11_Witness ==
    /\ TextDecoded
    /\ TheJson # NotJson
    /\ TheJson.type = "array"
    /\ Len(TheJson.items) > 0
    /\ load.error = "Invalid index file format: missing or invalid vectors array"

Defaults == [maxElements |-> Num(100), m |-> Num(16), efConstruction |-> Num(200),
             randomSeed |-> Num(100)]

OptionalKeys == {"maxElements", "m", "efConstruction", "randomSeed"}

\* C12: a text file that loads gives initIndex and the returned metadata
\* the same four parameters: 100, 16, 200 and 100 for maxElements, m,
\* efConstruction and randomSeed the document omits, and the document's
\* value for those it holds.  (The code does not keep a value that is 0.)
C12_TextDecodeDefaults ==
    (TextDecoded /\ load.pc = "done")
    => /\ Len(load.out.init) = 1
       /\ load.out.init[1] = <<load.out.metadata.maxElements, load.out.metadata.m,
                               load.out.metadata.efConstruction,
                               load.out.metadata.randomSeed>>
       /\ \A key \in OptionalKeys :
             load.out.metadata[key] =
                IF key \in DOMAIN TheJson.fields
                      /\ TheJson.fields[key].type \notin {"undefined", "null"}
                THEN TheJson.fields[key]
                ELSE Defaults[key]

\* The records of the file under filename, in file order: what the codec
\* is to hand to addPoint for the i-th of them.
FileRecordCount ==
    IF BinaryName THEN NumVectorsIn(TheBytes) ELSE Len(TheJson.fields.vectors.items)

FileRecord(i) ==
    IF BinaryName
    THEN LET d == NumDimensionsIn(TheBytes)
             at == 40 + (i - 1) * (4 + 4 * d)
         IN  [label |-> Num(FieldAt(TheBytes, at)),
              point |-> [j \in 1..d |->
                            FromFloatLE(SubSeq(TheBytes, at + 4 * j + 1, at + 4 * j + 4))],
              replaceDeleted |-> FALSE]
    ELSE LET item == TheJson.fields.vectors.items[i]
         IN  [label |-> item.fields.label,
              point |-> item.fields.point.items,
              replaceDeleted |-> FALSE]

\* A load that came to construct its index.
Rehydrating == Decoded /\ load.out.constructed # <<>>

\* C13: a load that constructs its index calls initIndex once, right after
\* the constructor and before any addPoint, with the (maxElements, m,
\* efConstruction, randomSeed) of the metadata; then addPoint once per
\* record, in file order, with replaceDeleted false.  A load that succeeds
\* has inserted every record of the file; when an addPoint call throws,
\* the load fails with an error that wraps the cause, no later record is
\* inserted and the records inserted before stay inserted.
C13_RehydrationProtocol ==
    Rehydrating
    => LET out == load.out
           n == Len(out.inserted)
           attempts == Len(out.calls) - 2
       IN  /\ Len(out.constructed) = 1
           /\ Len(out.init) = 1
           /\ Len(out.calls) >= 2
           /\ out.calls[1] = "HierarchicalNSW"
           /\ out.calls[2] = "initIndex"
           /\ \A k \in 3..Len(out.calls) : out.calls[k] = "addPoint"
           /\ BinaryName
                => out.init[1] = <<Num(FieldAt(TheBytes, 6)), Num(FieldAt(TheBytes, 10)),
                                   Num(FieldAt(TheBytes, 14)), Num(FieldAt(TheBytes, 18))>>
           /\ load.pc = "done"
                => /\ out.init[1] = <<out.metadata.maxElements, out.metadata.m,
                                      out.metadata.efConstruction, out.metadata.randomSeed>>
                   /\ n = FileRecordCount
                   /\ attempts = n
           /\ n <= FileRecordCount
           /\ \A i \in 1..n : out.inserted[i] = FileRecord(i)
           /\ AdapterRejected
                => /\ load.pc = "failed"
                   /\ attempts = n + 1
                   /\ n < FileRecordCount
           /\ load.pc = "failed"
                => /\ attempts \in {n, n + 1}
                   /\ \E k \in 1..Len(load.error) :
                         SubSeq(load.error, 1, k) = "Failed to recreate index: "

\* The second record of a file is rejected by the new index: the first
\* stays inserted.
C13_Witness ==
    /\ Rehydrating
    /\ AdapterRejected
    /\ Len(load.out.inserted) = 1
    /\ FileRecordCount = 2
    /\ load.out.calls = <<"HierarchicalNSW", "initIndex", "addPoint", "addPoint">>

\* C14: saveIndexToFile and loadIndexFromFile choose the codec from the
\* name alone and alike: the binary codec exactly when the name ends with
\* '.bin' or '.dat', the text codec for every other name ('.json', no
\* extension, '.BIN', '.bin.json'); so a file written under a name is
\* read under that name by the codec that wrote it.
C14_FormatSelection ==
    /\ save.codec # "none" => save.codec = (IF BinaryName THEN "binary" ELSE "text")
    /\ load.codec # "none" => load.codec = (IF BinaryName THEN "binary" ELSE "text")
    /\ save.pc \in {"writing", "done"}
         => /\ save.codec # "none"
            /\ save.pending.kind = (IF BinaryName THEN "bytes" ELSE "text")
    /\ load.pc = "done" => load.codec # "none"
    /\ (save.pc = "done" /\ load.codec # "none") => load.codec = save.codec

\* A file saved and loaded back under a name that ends with '.dat' and
\* nothing before it, and one under a name with '.bin' inside.
C14_Witness ==
    /\ save.pc = "done"
    /\ load.pc = "done"
    /\ filename \in {Str(".dat"), Str("v.bin.json")}
    /\ load.codec = save.codec

\* C15: every call of saveIndexToFile or loadIndexFromFile that fails has
\* invoked logger.error exactly once, whatever the cause, and a call that
\* succeeds has not invoked it.  (The code throws its argument checks and
\* 'File not found' outside the try block that logs.)
C15_FailureNotification ==
    /\ save.pc = "failed" => save.logged = 1
    /\ load.pc = "failed" => load.logged = 1
    /\ save.pc = "done" => save.logged = 0
    /\ load.pc = "done" => load.logged = 0

AdapterOperations ==
    {"getNumDimensions", "getCurrentCount", "getUsedLabels", "getPoint", "addPoint",
     "initIndex", "getMaxElements"}

\* C16: saveIndexToFile rejects, with one of the two validation errors and
\* before any write, an index that is absent or lacks any one of the
\* seven adapter operations.  (validateIndex tests four of them.)
C16_AdapterCapabilityCheck ==
    ( /\ save.pc # "idle"
      /\ \/ index.type = "null"
         \/ ~(AdapterOperations \subseteq index.methods) )
    => /\ save.pc = "failed"
       /\ save.error \in {"Index parameter is required",
                          "Invalid index object: missing required methods"}
       /\ save.writes = 0
       /\ save.codec = "none"

\* C17: for both codecs a file that fails a format check, the per-record
\* checks of label and point included, causes no constructor, initIndex
\* or addPoint call: every failure of a load other than a rejection by the
\* adapter leaves nothing created.  (The text codec checks each record
\* after the index is constructed and the records before it inserted.)
C17_ValidateThenConstruct ==
    (Decoded /\ load.pc = "failed" /\ ~AdapterRejected) => NothingCreated

\* C18: a file that loads has declared as many records as were inserted:
\* the numVectors of a binary header, and the numVectors of a text
\* document, which is also the length of its vectors array.  (The text
\* codec never reads numVectors.)
C18_DeclaredCountMatchesRecords ==
    (Decoded /\ load.pc = "done")
    => IF BinaryName
       THEN Len(load.out.inserted) = NumVectorsIn(TheBytes)
       ELSE /\ Get(TheJson, "numVectors") = Num(Len(load.out.inserted))
            /\ Len(TheJson.fields.vectors.items) = Len(load.out.inserted)

\* C19: a load that succeeds returns a numDimensions that is an integer in
\* 1..100000, has inserted at most 100000000 records, and has given
\* addPoint only points of numDimensions components.  (The text codec
\* tests numDimensions for being a number above 0 and nothing more.)
C19_LoadedIndexInvariant ==
    (Decoded /\ load.pc = "done")
    => LET nd == load.out.metadata.numDimensions
       IN  /\ nd.type = "number"
           /\ "val" \in DOMAIN nd
           /\ nd.val \in 1..100000
           /\ Len(load.out.inserted) <= 100000000
           /\ \A i \in 1..Len(load.out.inserted) :
                 Len(load.out.inserted[i].point) = nd.val

\* C20 as stated: every binary file that loads has exactly the length
\* 40 + numVectors * (4 + 4 * numDimensions) of its header's counts.
C20_ExactBinaryLength ==
    (Decoded /\ BinaryName /\ load.pc = "done")
    => Len(TheBytes) = 40 + NumVectorsIn(TheBytes) * (4 + 4 * NumDimensionsIn(TheBytes))

\* C20: a binary file with a valid header is rejected, with the size
\* error, exactly when it is shorter than 40 + numVectors * (4 + 4 *
\* numDimensions); a file of that length or longer is accepted by the
\* codec, and the bytes after the last record are never read.
C20_BinaryLengthAtLeast ==
    (Decoded /\ BinaryName /\ InRangeHeader(TheBytes))
    => IF ShorterThanAnnounced(TheBytes)
       THEN load.pc = "failed" /\ load.error = "File size mismatch"
       ELSE LET expected == 40 + NumVectorsIn(TheBytes)
                                   * (4 + 4 * NumDimensionsIn(TheBytes))
            IN  /\ Len(TheBytes) >= expected
                /\ load.error = NoError \/ AdapterRejected
                /\ \A k \in 1..Len(load.out.reads) :
                      load.out.reads[k].offset + load.out.reads[k].width <= expected
                /\ load.pc = "done"
                     => /\ Len(load.out.reads) = 8 + (expected - 40) \div 4
                        /\ Len(load.out.inserted) = NumVectorsIn(TheBytes)

\* A file with a byte after its last record loads.
C20_Witness ==
    /\ Decoded
    /\ BinaryName
    /\ InRangeHeader(TheBytes)
    /\ NumVectorsIn(TheBytes) >= 1
    /\ ~ShorterThanAnnounced(TheBytes)
    /\ Len(TheBytes) > 40 + NumVectorsIn(TheBytes) * (4 + 4 * NumDimensionsIn(TheBytes))
    /\ load.pc = "done"

\* The same saveIndexToFile call with 'l2' for metadata.spaceName.
SaveWithL2 == SaveIndexToFile(index, filename, [metadata EXCEPT !.spaceName = Str("l2")])

\* The code of a canonical name; 0 for everything else.
CanonicalCode ==
    CASE metadata.spaceName = Str("ip") -> 1
      [] metadata.spaceName = Str("cosine") -> 2
      [] OTHER -> 0

\* C21: a binary save fails or issues its write exactly as it does with
\* spaceName 'l2', whatever metadata.spaceName is (absent, a name out of
\* the three, a number, the name of an inherited member); the byte at
\* offset 1 is 0, 1, 2 for 'l2', 'ip', 'cosine' and 0 for everything else,
\* every other byte being the same; the decoder's name for the byte of a
\* canonical name is that name, and a load of the file returns it.
C21_EnumLeniencyBinaryEncode ==
    (BinaryName /\ save.pc # "idle")
    => LET l2 == SaveWithL2
       IN
       /\ save.writes = l2.writes
       /\ save.writes = 0 => save.error = l2.error
       /\ save.writes = 1
            => /\ save.pending.data[2] = CanonicalCode
               /\ [save.pending.data EXCEPT ![2] = 0] = l2.pending.data
               /\ metadata.spaceName \in {Str("l2"), Str("ip"), Str("cosine")}
                    => Str(SpaceNameOf(save.pending.data[2])) = metadata.spaceName
               /\ save.pc = "done" => fs[filename.val].data[2] = CanonicalCode
               /\ (save.pc = "done" /\ load.pc = "done")
                    => load.out.metadata.spaceName = Str(SpaceNameOf(CanonicalCode))

\* A name out of the three is written as 0 and the file loads as 'l2'.
C21_Witness ==
    /\ BinaryName
    /\ save.pc = "done"
    /\ metadata.spaceName \in {Str("euclidean"), Str("toString")}
    /\ fs[filename.val].data[2] = 0
    /\ load.pc = "done"
    /\ load.out.metadata.spaceName = Str("l2")

\* The output of a codec for the records a call extracted when it was made.
OutputOf(call, name, md, maxElementsOf) ==
    IF IsBinary(name)
    THEN Bytes(EncodeBinary(maxElementsOf, md, call.numDimensions, call.vectors).buffer)
    ELSE Text(Stringified(EncodeJSON(maxElementsOf, md, call.numDimensions,
                                     call.vectors).data))

\* C22: the output a saveIndexToFile call hands to fs.writeFile is complete
\* when the call reaches the write: it encodes the records extracted at the
\* call, and the file holds exactly that output when the write succeeds,
\* whatever is done to the index while the write is pending (a point added,
\* marked deleted or replaced) and whatever a second call, saving another
\* index under another name, writes meanwhile; the second call's file holds
\* the second call's output.
C22_EncodeSnapshot ==
    /\ save.pc \in {"writing", "done"}
         => save.pending = OutputOf(save, filename.val, metadata, index)
    /\ save.pc = "done" => fs[filename.val] = save.pending
    /\ other.call.pc \in {"writing", "done"}
         => /\ other.filename # filename.val
            /\ other.call.pending =
                  OutputOf(other.call, other.filename, EmptyMetadata, OtherIndex)
            /\ other.call.vectors = ExtractVectorsFromIndex(OtherIndex).vectors
    /\ other.call.pc = "done" => fs[other.filename] = other.call.pending

\* Both writes have succeeded; the index of the first call was changed
\* while its write was pending and the file holds the records of before.
C22_Witness ==
    /\ save.pc = "done"
    /\ other.call.pc = "done"
    /\ ExtractVectorsFromIndex(index).vectors # save.vectors
    /\ Len(index.elements) > MaxVectors
    /\ fs[filename.val] = save.pending
    /\ fs[filename.val] # SaveIndexToFile(index, filename, metadata).pending
    /\ fs[other.filename] = other.call.pending

\* The labels getUsedLabels yields for the index of the call.
UsedLabels == GetUsedLabels(index)

\* The label and the point of the i-th record of a save's output.
WrittenLabel(content, i) ==
    IF content.kind = "bytes"
    THEN FieldAt(content.data, 40 + (i - 1) * (4 + 4 * index.numDimensions))
    ELSE content.json.fields.vectors.items[i].fields.label.val

WrittenPoint(content, i) ==
    IF content.kind = "bytes"
    THEN LET d == index.numDimensions
             at == 40 + (i - 1) * (4 + 4 * d)
         IN  [j \in 1..d |-> SubSeq(content.data, at + 4 * j + 1, at + 4 * j + 4)]
    ELSE content.json.fields.vectors.items[i].fields.point.items

ExtractionFails ==
    /\ SavableIndex
    /\ filename \in {Str(n) : n \in AllFileNames}
    /\ Len(index.elements) > 0
    /\ \/ "getUsedLabels" \in index.throwing
       \/ \E i \in 1..Len(UsedLabels) : UsedLabels[i] \in index.noPoint

\* C23: a save that issues its write has extracted one record per label
\* that getUsedLabels yields, in the order yielded, a label yielded twice
\* giving two records, each with the point getPoint returns for its label;
\* the output holds the records in that order.  When getUsedLabels or a
\* getPoint call throws, the save fails with the extraction error and
\* issues no write.
C23_ExtractorOrder ==
    /\ save.pc \in {"writing", "done"}
         => /\ Len(save.vectors) = Len(UsedLabels)
            /\ \A i \in 1..Len(UsedLabels) :
                  /\ save.vectors[i].label = UsedLabels[i]
                  /\ save.vectors[i].point = GetPoint(index, UsedLabels[i])
                  /\ WrittenLabel(save.pending, i) = UsedLabels[i]
                  /\ WrittenPoint(save.pending, i) =
                        IF save.pending.kind = "bytes"
                        THEN [j \in 1..index.numDimensions |->
                                 FloatLE(GetPoint(index, UsedLabels[i])[j].lit)]
                        ELSE Stringified(Arr(GetPoint(index, UsedLabels[i]))).items
            /\ RecordsIn(save.pending) = Len(UsedLabels)
    /\ (save.pc # "idle" /\ ExtractionFails)
         => /\ save.pc = "failed"
            /\ save.error \in
                  {"Failed to extract vectors from index: getUsedLabels failed",
                   "Failed to extract vectors from index: getPoint failed"}
            /\ save.writes = 0
            /\ fs[filename.val] \in {Absent, OldContent(filename.val)}

\* An index that yields the label 7, then 3, then 7 again is written as
\* three records in that order.
C23_Witness ==
    /\ save.pc = "done"
    /\ UsedLabels = <<7, 3, 7>>
    /\ RecordsIn(fs[filename.val]) = 3
    /\ WrittenLabel(fs[filename.val], 1) = 7
    /\ WrittenLabel(fs[filename.val], 2) = 3
    /\ WrittenLabel(fs[filename.val], 3) = 7

\* The members the latest setLogger call supplied.
Supplied ==
    IF customLogger.type = "object" THEN DOMAIN customLogger.fields ELSE {}

C25_SaveOutputLoadable ==
    (save.pc = "done" /\ Decoded /\ ~AdapterRejected)
    => /\ load.pc = "done"
       /\ load.error = NoError

EndOfFileErrors ==
    {"Unexpected end of file while reading header",
     "Failed to recreate index: Unexpected end of file while reading vector"}

\* C26: every read loadIndexBinary performs lies within the buffer, for
\* every buffer: too short for a header, cut inside or between records,
\* exact, or longer than announced.  None of the end-of-file checks of the
\* header and of the records ever fires: a buffer of less than 40 bytes is
\* rejected as too small and one shorter than its header announces by the
\* size check.  After the last record of a file that loads the read offset
\* is 40 + numVectors * (4 + 4 * numDimensions).
C26_BinaryDecodeBounds ==
    (Decoded /\ BinaryName)
    => /\ \A k \in 1..Len(load.out.reads) :
             /\ load.out.reads[k].offset >= 0
             /\ load.out.reads[k].offset + load.out.reads[k].width <= Len(TheBytes)
       /\ load.error \notin EndOfFileErrors
       /\ load.out.sized /\ load.error # "File size mismatch"
            => /\ load.out.constructed # <<>>
               /\ load.out.offset <= Len(TheBytes)
       /\ load.pc = "done"
            => /\ load.out.sized
               /\ load.out.offset =
                     40 + NumVectorsIn(TheBytes) * (4 + 4 * NumDimensionsIn(TheBytes))
               /\ Len(load.out.reads) =
                     8 + NumVectorsIn(TheBytes) * (1 + NumDimensionsIn(TheBytes))

\* A file of two records with a byte after them: the reads stop at the end
\* of the second record.
C26_Witness ==
    /\ Decoded
    /\ BinaryName
    /\ load.pc = "done"
    /\ NumVectorsIn(TheBytes) = 2
    /\ load.out.offset = 40 + 2 * (4 + 4 * NumDimensionsIn(TheBytes))
    /\ Len(TheBytes) = load.out.offset + 1

\* What loadIndexFromFile returns: { index, metadata }, or nothing when it
\* throws.
Returned == load.out.metadata # Undefined

\* C27: a loadIndexFromFile call that has run its codec either returns,
\* with every record of the file inserted in file order (the numVectors
\* records of a binary file, the elements of vectors of a text file), or
\* throws and returns nothing; an index that holds only some of the
\* records, because the adapter rejected one or a record of a text file
\* failed its check, is never returned.
C27_LoadAllOrNothing ==
    Decoded
    => /\ load.pc = "done"
            => /\ Returned
               /\ load.error = NoError
               /\ Len(load.out.inserted) = FileRecordCount
               /\ \A i \in 1..FileRecordCount : load.out.inserted[i] = FileRecord(i)
       /\ load.pc = "failed"
            => /\ ~Returned
               /\ load.error # NoError
       /\ Returned => load.pc = "done"

\* The adapter rejected the second record of a text file: the first is
\* inserted, the call throws and returns nothing.
C27_Witness ==
    /\ Decoded
    /\ TextName
    /\ AdapterRejected
    /\ load.pc = "failed"
    /\ Len(load.out.inserted) = 1
    /\ Len(TheJson.fields.vectors.items) = 2
    /\ ~Returned
====
